---- MODULE Spec2Model ----
(***************************************************************************)
(* A model of the Gmail / Calendar tool functions of                       *)
(* src/src/tools/gmailapi/gmail_tools.py, of format_gmail_markdown in      *)
(* src/src/utils.py and of get_tools / get_tools_by_name in                *)
(* src/src/tools/base.py.                                                  *)
(*                                                                         *)
(* The provider (mailbox, calendar) and the three credential sources are   *)
(* state; every tool function is an action (fetch_group_emails, a          *)
(* generator with two loops, is a small process of several steps).         *)
(***************************************************************************)
EXTENDS Integers, Sequences, FiniteSets, TLC

VARIABLES
    envToken,     \* the GMAIL_TOKEN environment variable
    tokenFile,    \* the .secrets/token.json file
    mailbox,      \* the provider's messages, a sequence ordered by message id
    badThreads,   \* thread ids for which the provider's threads.get fails
    calendar,     \* the provider's events of each date
    importable,   \* whether the gmailapi.gmail_tools module can be imported
    now,          \* the clock (datetime.now()), in minutes
    op,           \* "idle", or the position of a running fetch_group_emails
    call,         \* the current (or last) invocation: function and arguments
    result,       \* what the last invocation returned or raised
    calls,        \* the provider API calls issued by the current invocation
    fetch         \* the locals of fetch_group_emails

vars == <<envToken, tokenFile, mailbox, badThreads, calendar, importable, now, op, call, result, calls, fetch>>

----------------------------------------------------------------------------
(* Bounds of the model *)

MaxMsgs == 2        \* messages in the mailbox
MaxEvents == 2      \* events of one date
MaxBody == 3        \* pieces of an email body handed to format_gmail_markdown
MaxTicks == 2       \* minutes that pass

----------------------------------------------------------------------------
(* Strings *)

StartsWith(s, p) == Len(s) >= Len(p) /\ SubSeq(s, 1, Len(p)) = p

\* Python's  p in s  on strings
Contains(s, p) == \E i \in 1..(Len(s) - Len(p) + 1) : SubSeq(s, i, i + Len(p) - 1) = p

\* an optional value (a header that may be missing, a dict key that may be absent)
Missing == <<>>
Some(v) == <<v>>
Has(o) == o # <<>>
Val(o) == o[1]

----------------------------------------------------------------------------
(* Credential sources and get_credentials *)

\* a credential source: not there (None / unset / no file) or a text
Absent == [present |-> FALSE, text |-> ""]
Text(s) == [present |-> TRUE, text |-> s]

\* Python truthiness of an Optional[str]
Truthy(src) == src.present /\ src.text # ""

\* parsed JSON values, as far as get_credentials tells them apart
JsonNull == [type |-> "null", token |-> ""]
JsonArray == [type |-> "array", token |-> ""]
JsonObject(t) == [type |-> "object", token |-> t]

\* json.loads on the texts of the model: err is JSONDecodeError
JsonLoads(s) ==
    CASE s = "null" -> [err |-> FALSE, val |-> JsonNull]
      [] s = "[]" -> [err |-> FALSE, val |-> JsonArray]
      [] s = "{\"token\": \"P\"}" -> [err |-> FALSE, val |-> JsonObject("P")]
      [] s = "{\"token\": \"E\"}" -> [err |-> FALSE, val |-> JsonObject("E")]
      [] s = "{\"token\": \"F\"}" -> [err |-> FALSE, val |-> JsonObject("F")]
      [] OTHER -> [err |-> TRUE, val |-> JsonNull]

\* token_data: the parsed value and the source it was taken from; Python's None
\* is JsonNull (json.loads("null") is None too)
NoData == [val |-> JsonNull, source |-> "none"]
IsNone(td) == td.val.type = "null"

\* lines 74-79
TryParam(gmail_token) ==
    IF Truthy(gmail_token) /\ ~JsonLoads(gmail_token.text).err
    THEN [val |-> JsonLoads(gmail_token.text).val, source |-> "param"]
    ELSE NoData

\* lines 82-89
TryEnv(td, env) ==
    IF IsNone(td)
    THEN IF Truthy(env) /\ ~JsonLoads(env.text).err
         THEN [val |-> JsonLoads(env.text).val, source |-> "env"]
         ELSE NoData
    ELSE td

\* lines 92-98: json.load of an empty or malformed file raises, which is caught
TryFile(td, file) ==
    IF IsNone(td) /\ file.present
    THEN IF ~JsonLoads(file.text).err
         THEN [val |-> JsonLoads(file.text).val, source |-> "file"]
         ELSE NoData
    ELSE td

\* a faulty variant: the environment variable is consulted before the parameter
TokenDataEnvFirst(gmail_token, env, file) ==
    LET e == TryEnv(NoData, env)
        p == IF IsNone(e) THEN TryParam(gmail_token) ELSE e
    IN  TryFile(p, file)

\* lines 70-98
TokenData(gmail_token, env, file) ==
    TryFile(TryEnv(TryParam(gmail_token), env), file)

\* what an invocation ends with: a returned value, or a raised exception (names:
\* the message id its text names, 0 for none)
NoResult == [kind |-> "none", exc |-> "", names |-> 0, value |-> <<>>]
Returned(v) == [kind |-> "returned", exc |-> "", names |-> 0, value |-> v]
Raise(e, id) == [kind |-> "raised", exc |-> e, names |-> id, value |-> <<>>]

\* lines 100-119: token_data.get on a value that is no dict raises AttributeError
get_credentials(gmail_token, env, file) ==
    LET td == TokenData(gmail_token, env, file)
    IN  IF IsNone(td) THEN Raise("ValueError", 0)
        ELSE IF td.val.type # "object" THEN Raise("AttributeError", 0)
        ELSE Returned([token |-> td.val.token, source |-> td.source])

----------------------------------------------------------------------------
(* The mailbox *)

Me == "me@x.com"

\* the body of a payload (or of one of its parts): data is the base64 text, if
\* any; decodable FALSE: base64 or utf-8 decoding of the data raises
Payload(data, decodable, parts) == [data |-> data, decodable |-> decodable, parts |-> parts]
PlainBody(text) == Payload(Some(text), TRUE, <<>>)

\* a message as users.messages.get returns it.  threadId 0: the key is absent.
\* gettable FALSE: the provider answers messages.get for this id with an error.
Message(id, threadId, internalDate, from, subject, date, body, unread, gettable) ==
    [id |-> id, threadId |-> threadId, internalDate |-> internalDate,
     from |-> from, to |-> Some(Me), replyTo |-> Missing, subject |-> subject,
     date |-> date, body |-> body, unread |-> unread, gettable |-> gettable]

DateText == "Mon, 1 Jan 2024 10:00:00 +0000"

\* dateutil's parse followed by isoformat(), on the texts of the model
ParseTime(s) ==
    IF s = DateText THEN [err |-> FALSE, iso |-> "2024-01-01T10:00:00+00:00"]
    ELSE [err |-> TRUE, iso |-> ""]

IsSpace(c) == c = " " \/ c = "\n" \/ c = "\t"

RECURSIVE LStrip(_)
LStrip(s) == IF Len(s) > 0 /\ IsSpace(SubSeq(s, 1, 1)) THEN LStrip(SubSeq(s, 2, Len(s))) ELSE s

RECURSIVE RStrip(_)
RStrip(s) == IF Len(s) > 0 /\ IsSpace(SubSeq(s, Len(s), Len(s))) THEN RStrip(SubSeq(s, 1, Len(s) - 1)) ELSE s

\* str.strip()
Strip(s) == RStrip(LStrip(s))

\* "\n".join(text_parts)
RECURSIVE Join(_)
Join(texts) ==
    IF texts = <<>> THEN ""
    ELSE IF Len(texts) = 1 THEN texts[1]
    ELSE texts[1] \o "\n" \o Join(Tail(texts))

\* lines 30-48: err is the exception the decoding raises
RECURSIVE extract_message_part(_)
extract_message_part(payload) ==
    IF Has(payload.data) /\ Val(payload.data) # ""
    THEN IF payload.decodable THEN [err |-> FALSE, text |-> Val(payload.data)]
         ELSE [err |-> TRUE, text |-> ""]
    ELSE IF payload.parts # <<>>
    THEN LET contents == [i \in 1..Len(payload.parts) |-> extract_message_part(payload.parts[i])]
         IN  IF \E i \in 1..Len(contents) : contents[i].err THEN [err |-> TRUE, text |-> ""]
             ELSE [err |-> FALSE,
                   text |-> Join([i \in 1..Len(SelectSeq(contents, LAMBDA c : c.text # "")) |->
                                     SelectSeq(contents, LAMBDA c : c.text # "")[i].text])]
    ELSE [err |-> FALSE, text |-> ""]

Ids(mb) == {mb[i].id : i \in 1..Len(mb)}
ById(mb, id) == mb[CHOOSE i \in 1..Len(mb) : mb[i].id = id]

\* users.threads.get: the messages of the thread, in the provider's (id) order
ThreadMessages(mb, threadId) == SelectSeq(mb, LAMBDA m : m.threadId = threadId)

\* Python's list.sort(key=...) on a list of [k |-> key, v |-> item]: stable, here
\* as an insertion sort
RECURSIVE InsertByKey(_, _)
InsertByKey(sorted, e) ==
    IF sorted = <<>> THEN <<e>>
    ELSE IF e.k < sorted[Len(sorted)].k
         THEN Append(InsertByKey(SubSeq(sorted, 1, Len(sorted) - 1), e), sorted[Len(sorted)])
         ELSE Append(sorted, e)

RECURSIVE SortByKey(_)
SortByKey(s) ==
    IF s = <<>> THEN <<>>
    ELSE InsertByKey(SortByKey(SubSeq(s, 1, Len(s) - 1)), s[Len(s)])

Items(s) == [i \in 1..Len(s) |-> s[i].v]

\* lines 211-215
SortThread(ms) ==
    IF \A i \in 1..Len(ms) : Has(ms[i].internalDate)
    THEN Items(SortByKey([i \in 1..Len(ms) |-> [k |-> Val(ms[i].internalDate), v |-> ms[i]]]))
    ELSE Items(SortByKey([i \in 1..Len(ms) |-> [k |-> ms[i].id, v |-> ms[i]]]))

----------------------------------------------------------------------------
(* fetch_group_emails *)

PageSize == 1       \* messages per page of users.messages.list

Min(a, b) == IF a < b THEN a ELSE b
Max(a, b) == IF a < b THEN b ELSE a

\* an entry of the message listing
Entry(m) == [id |-> m.id, threadId |-> m.threadId]

\* line 124: the default of minutes_since
MinutesSince == 30

\* the clock when the model starts: the messages of the model, dated from
\* minute 1 on, are all within the last MinutesSince minutes
Start == MinutesSince

\* the provider's after: operator, on the time it received the message (a
\* message whose internalDate the model leaves out is taken to be recent)
Recent(m, after) == ~Has(m.internalDate) \/ Val(m.internalDate) > after

\* lines 164-170: every message of the mailbox involves email_address;
\* after:{after} is always part of the query, is:unread is added unless
\* include_read
Matching(mb, include_read, after) ==
    LET hit == SelectSeq(mb, LAMBDA m : (include_read \/ m.unread) /\ Recent(m, after))
    IN  [i \in 1..Len(hit) |-> Entry(hit[i])]

\* users.messages.list: one page of the matches, starting at the page token.
\* An empty page has no "messages" key; the last page has no nextPageToken.
ListPage(mb, include_read, after, token) ==
    LET all == Matching(mb, include_read, after)
        first == IF Has(token) THEN Val(token) ELSE 1
        last == Min(first + PageSize - 1, Len(all))
        page == SubSeq(all, first, last)
    IN  [messages |-> IF page = <<>> THEN Missing ELSE Some(page),
         nextPageToken |-> IF last < Len(all) THEN Some(last + 1) ELSE Missing]

\* a provider API call, as far as the model records it
ApiCall(api, id) == [api |-> api, id |-> id, to |-> "", subject |-> "", threadId |-> 0]

\* the records fetch_group_emails yields: lines 226-230 and lines 271-279
StubRecord(entry, thread_id) ==
    [kind |-> "stub", id |-> entry.id, thread_id |-> thread_id, user_respond |-> TRUE,
     from_email |-> "", to_email |-> "", subject |-> "", page_content |-> "", send_time |-> ""]

FullRecord(id, thread_id, from_email, to_email, subject, body, send_time) ==
    [kind |-> "full", id |-> id, thread_id |-> thread_id, user_respond |-> FALSE,
     from_email |-> Strip(from_email), to_email |-> Strip(to_email), subject |-> subject,
     page_content |-> body, send_time |-> send_time]

\* a faulty variant: the filter ignores skip_filters
UserRespondedAlways(skip_filters, email_address, last_from) ==
    Contains(last_from, email_address)

\* line 225
UserResponded(skip_filters, email_address, last_from) ==
    ~skip_filters /\ Contains(last_from, email_address)

\* a faulty variant: is_latest_in_thread is left out of the condition
ShouldProcessAnyPosition(skip_filters, email_address, from_header, entry, last_message) ==
    skip_filters \/ ~Contains(from_header, email_address)

\* lines 235-240
ShouldProcess(skip_filters, email_address, from_header, entry, last_message) ==
    skip_filters \/ (~Contains(from_header, email_address) /\ entry.id = last_message.id)

Failed(apicalls) == [outcome |-> "failed", rec |-> StubRecord([id |-> 0], 0), apicalls |-> apicalls]

\* lines 254-279: the metadata and the body of the message that is reported
\* (pm: its payload; id, thread_id: process_message["id"], ["threadId"])
Extract(pm, id, thread_id, apicalls) ==
    IF ~Has(pm.subject) THEN Failed(apicalls)                      \* line 255: StopIteration
    ELSE IF ~Has(pm.date) THEN Failed(apicalls)                    \* line 264: StopIteration
    ELSE IF ParseTime(Val(pm.date)).err THEN Failed(apicalls)      \* line 265
    ELSE IF extract_message_part(pm.body).err THEN Failed(apicalls)  \* line 268
    ELSE IF thread_id = 0 THEN Failed(apicalls)                    \* line 277: KeyError
    ELSE [outcome |-> "record",
          rec |-> FullRecord(id, thread_id,
                     IF Has(pm.replyTo) /\ Val(pm.replyTo) # "" THEN Val(pm.replyTo)
                     ELSE IF Has(pm.from) THEN Val(pm.from) ELSE "",
                     IF Has(pm.to) THEN Val(pm.to) ELSE "",
                     Val(pm.subject), extract_message_part(pm.body).text,
                     ParseTime(Val(pm.date)).iso),
          apicalls |-> apicalls]

\* lines 200-283: the body of the for loop for one listed entry.  outcome is
\* "record" (a full record is yielded), "stub" (the user_respond record is
\* yielded), "filtered" (line 247) or "failed" (the except clause).
ProcessMessage(entry, email_address, skip_filters, mb, bad) ==
    LET get == ApiCall("messages.get", entry.id)
    IN
    IF entry.id \notin Ids(mb) \/ ~ById(mb, entry.id).gettable THEN Failed(<<get>>)
    ELSE
    LET msg == ById(mb, entry.id)
        thread_id == msg.threadId
        tget == ApiCall("threads.get", thread_id)
    IN
    IF thread_id = 0 THEN Failed(<<get>>)                           \* line 203: KeyError
    ELSE IF thread_id \in bad THEN Failed(<<get, tget>>)            \* line 208
    ELSE
    LET messages_in_thread == SortThread(ThreadMessages(mb, thread_id))
        last_message == messages_in_thread[Len(messages_in_thread)]
        api == <<get, tget>>
    IN
    IF ~Has(last_message.from) THEN Failed(api)                     \* line 222: StopIteration
    ELSE IF UserResponded(skip_filters, email_address, Val(last_message.from))
    THEN [outcome |-> "stub", rec |-> StubRecord(entry, thread_id), apicalls |-> api]
    ELSE IF ~Has(msg.from) THEN Failed(api)                         \* line 235: StopIteration
    ELSE IF ~ShouldProcess(skip_filters, email_address, Val(msg.from), entry, last_message)
    THEN [outcome |-> "filtered", rec |-> StubRecord([id |-> 0], 0), apicalls |-> api]
    ELSE IF skip_filters
         THEN Extract(last_message, last_message.id, last_message.threadId, api)
         ELSE Extract(msg, entry.id, entry.threadId, api)

\* the invocation: the function and its arguments (those a function does not
\* take are left at their defaults)
Call(name, gmail_token) ==
    [name |-> name, gmail_token |-> gmail_token, email_address |-> Me, id |-> 0,
     include_read |-> FALSE, skip_filters |-> FALSE, dates |-> <<>>, body |-> "",
     tool_names |-> Missing, include_gmail |-> FALSE, tools |-> Missing]

NoCall == Call("none", Absent)

NoFetch ==
    [after |-> 0, messages |-> <<>>, next_page_token |-> Missing, i |-> 1, out |-> <<>>, warned |-> <<>>]

\* a faulty variant: the exception leaves the for loop (the try statement around the
\* loop instead of inside it)
CaughtAbort(f, entry) ==
    [f EXCEPT !.i = Len(f.messages) + 1, !.warned = Append(@, entry.id)]

\* lines 282-283: the warning is logged and the loop goes on with the next entry
Caught(f, entry) ==
    [f EXCEPT !.i = @ + 1, !.warned = Append(@, entry.id)]

\* lines 159-176: the credentials are loaded before anything is requested
FetchBegin(gmail_token, include_read, skip_filters) ==
    /\ op = "idle"
    /\ call' = [Call("fetch_group_emails", gmail_token) EXCEPT
                    !.include_read = include_read, !.skip_filters = skip_filters]
    /\ calls' = <<>>
    /\ fetch' = [NoFetch EXCEPT !.after = now - MinutesSince]
    /\ LET creds == get_credentials(gmail_token, envToken, tokenFile)
       IN  IF creds.kind = "returned"
           THEN op' = "listing" /\ result' = NoResult
           ELSE op' = "idle" /\ result' = creds
    /\ UNCHANGED <<now, importable, envToken, tokenFile, mailbox, badThreads, calendar>>

\* a faulty variant: the messages of a page replace those of the pages before
ExtendReplacing(messages, results) ==
    IF Has(results.messages) THEN Val(results.messages) ELSE messages

\* lines 184-187
Extend(messages, results) ==
    IF Has(results.messages) THEN messages \o Val(results.messages) ELSE messages

\* lines 178-192: one turn of the while loop
FetchListPage ==
    /\ op = "listing"
    /\ LET results == ListPage(mailbox, call.include_read, fetch.after, fetch.next_page_token)
       IN  /\ calls' = Append(calls, ApiCall("messages.list",
                                 IF Has(fetch.next_page_token) THEN Val(fetch.next_page_token) ELSE 0))
           /\ fetch' = [fetch EXCEPT
                  !.messages = Extend(@, results),
                  !.next_page_token = results.nextPageToken]
           /\ op' = IF Has(results.nextPageToken) THEN "listing" ELSE "processing"
    /\ UNCHANGED <<now, importable, envToken, tokenFile, mailbox, badThreads, calendar, call, result>>

\* a faulty variant: a message is marked as read once it has been processed
FetchProcessMarking ==
    /\ op = "processing"
    /\ fetch.i <= Len(fetch.messages)
    /\ LET entry == fetch.messages[fetch.i]
           r == ProcessMessage(entry, call.email_address, call.skip_filters, mailbox, badThreads)
       IN  /\ calls' = calls \o r.apicalls \o <<ApiCall("messages.modify", entry.id)>>
           /\ fetch' = IF r.outcome = "failed" THEN Caught(fetch, entry)
                       ELSE IF r.outcome = "filtered" THEN [fetch EXCEPT !.i = @ + 1]
                       ELSE [fetch EXCEPT !.i = @ + 1, !.out = Append(@, r.rec)]
           /\ mailbox' = [i \in 1..Len(mailbox) |->
                             IF mailbox[i].id = entry.id
                             THEN [mailbox[i] EXCEPT !.unread = FALSE] ELSE mailbox[i]]
    /\ UNCHANGED <<now, importable, envToken, tokenFile, badThreads, calendar, op, call, result>>

\* lines 199-283: one turn of the for loop
FetchProcess ==
    /\ op = "processing"
    /\ fetch.i <= Len(fetch.messages)
    /\ LET entry == fetch.messages[fetch.i]
           r == ProcessMessage(entry, call.email_address, call.skip_filters, mailbox, badThreads)
       IN  /\ calls' = calls \o r.apicalls
           /\ fetch' = IF r.outcome = "failed" THEN Caught(fetch, entry)
                       ELSE IF r.outcome = "filtered" THEN [fetch EXCEPT !.i = @ + 1]
                       ELSE [fetch EXCEPT !.i = @ + 1, !.out = Append(@, r.rec)]
    /\ UNCHANGED <<now, importable, envToken, tokenFile, mailbox, badThreads, calendar, op, call, result>>

\* line 285: the generator is exhausted
FetchEnd ==
    /\ op = "processing"
    /\ fetch.i > Len(fetch.messages)
    /\ op' = "idle"
    /\ result' = Returned(<<>>)
    /\ UNCHANGED <<now, importable, envToken, tokenFile, mailbox, badThreads, calendar, call, calls, fetch>>

\* time passes
Tick ==
    /\ now < Start + MaxTicks
    /\ now' = now + 1
    /\ UNCHANGED <<importable, envToken, tokenFile, mailbox, badThreads, calendar, op, call,
                   result, calls, fetch>>

----------------------------------------------------------------------------
(* send_email and mark_as_read *)

\* a faulty variant: the prefix is added whatever the subject starts with
ReplySubjectAlways(subject) == "Re: " \o subject

\* lines 324-325
ReplySubject(subject) ==
    IF StartsWith(subject, "Re:") THEN subject ELSE "Re: " \o subject

NoContext == [err |-> TRUE, subject |-> "", original_from |-> "", thread_id |-> 0]

\* a faulty variant: a header that is missing reads as "" (next(..., "")) and a
\* missing threadId as 0 (message.get("threadId"))
ReplyContextDefaults(mb, email_id) ==
    IF email_id \notin Ids(mb) \/ ~ById(mb, email_id).gettable THEN NoContext
    ELSE LET message == ById(mb, email_id)
         IN  [err |-> FALSE,
              subject |-> ReplySubject(IF Has(message.subject) THEN Val(message.subject) ELSE ""),
              original_from |-> IF Has(message.from) THEN Val(message.from) ELSE "",
              thread_id |-> message.threadId]

\* lines 318-332: the try block; err is any exception raised in it
ReplyContext(mb, email_id) ==
    IF email_id \notin Ids(mb) \/ ~ById(mb, email_id).gettable THEN NoContext   \* line 319
    ELSE LET message == ById(mb, email_id)
         IN  IF ~Has(message.subject) THEN NoContext                 \* line 323: StopIteration
             ELSE IF ~Has(message.from) THEN NoContext               \* line 328: StopIteration
             ELSE IF message.threadId = 0 THEN NoContext             \* line 329: KeyError
             ELSE [err |-> FALSE, subject |-> ReplySubject(Val(message.subject)),
                   original_from |-> Val(message.from), thread_id |-> message.threadId]

\* lines 335-345: the message handed to users.messages.send
SendCall(ctx) ==
    [api |-> "messages.send", id |-> 0, to |-> ctx.original_from,
     subject |-> ctx.subject, threadId |-> ctx.thread_id]

\* the provider files the message that was sent in its thread: it is by the
\* user, read, and the newest of the mailbox
Newest(mb) ==
    LET dates == {Val(mb[i].internalDate) : i \in {j \in 1..Len(mb) : Has(mb[j].internalDate)}}
    IN  IF dates = {} THEN 1 ELSE (CHOOSE d \in dates : \A e \in dates : e <= d) + 1

SentMessage(mb, ctx) ==
    [Message(Len(mb) + 1, ctx.thread_id, Some(Newest(mb)), Some(Me), Some(ctx.subject),
             Some(DateText), PlainBody("reply"), FALSE, TRUE) EXCEPT !.to = Some(ctx.original_from)]

\* lines 314-350
send_email(gmail_token, email_id) ==
    /\ op = "idle"
    /\ call' = [Call("send_email", gmail_token) EXCEPT !.id = email_id]
    /\ LET creds == get_credentials(gmail_token, envToken, tokenFile)
           ctx == ReplyContext(mailbox, email_id)
           get == ApiCall("messages.get", email_id)
       IN  IF creds.kind # "returned"
           THEN result' = creds /\ calls' = <<>> /\ mailbox' = mailbox
           ELSE IF ctx.err
           THEN result' = Raise("ValueError", email_id) /\ calls' = <<get>> /\ mailbox' = mailbox
           ELSE /\ Len(mailbox) <= MaxMsgs
                /\ result' = Returned(TRUE)
                /\ calls' = <<get, SendCall(ctx)>>
                /\ mailbox' = Append(mailbox, SentMessage(mailbox, ctx))
    /\ UNCHANGED <<now, importable, envToken, tokenFile, badThreads, calendar, op, fetch>>

\* lines 524-534: the provider answers an unknown id with an error
mark_as_read(gmail_token, message_id) ==
    /\ op = "idle"
    /\ call' = [Call("mark_as_read", gmail_token) EXCEPT !.id = message_id]
    /\ LET creds == get_credentials(gmail_token, envToken, tokenFile)
           modify == ApiCall("messages.modify", message_id)
       IN  IF creds.kind # "returned"
           THEN result' = creds /\ calls' = <<>> /\ mailbox' = mailbox
           ELSE IF message_id \notin Ids(mailbox)
           THEN result' = Raise("HttpError", 0) /\ calls' = <<modify>> /\ mailbox' = mailbox
           ELSE /\ result' = Returned(TRUE)
                /\ calls' = <<modify>>
                /\ mailbox' = [i \in 1..Len(mailbox) |->
                                  IF mailbox[i].id = message_id
                                  THEN [mailbox[i] EXCEPT !.unread = FALSE] ELSE mailbox[i]]
    /\ UNCHANGED <<now, importable, envToken, tokenFile, badThreads, calendar, op, fetch>>

\* get_credentials called by itself
GetCredentials(gmail_token) ==
    /\ op = "idle"
    /\ call' = Call("get_credentials", gmail_token)
    /\ result' = get_credentials(gmail_token, envToken, tokenFile)
    /\ calls' = <<>>
    /\ UNCHANGED <<now, importable, envToken, tokenFile, mailbox, badThreads, calendar, op, fetch>>

----------------------------------------------------------------------------
(* get_calendar_events and send_calendar_invite *)

\* Times are hours counted from the midnight that begins the requested date.
WorkStart == 9
WorkEnd == 17

\* an event of the calendar.  allDay: start and end are dates (no "T").
\* aware: the dateTime texts carry a UTC offset ("Z", "+00:00"), so that
\* datetime.fromisoformat yields offset-aware values.
TimedEvent(start, end, aware) == [start |-> start, end |-> end, aware |-> aware, allDay |-> FALSE]
AllDayEvent == [start |-> 0, end |-> 24, aware |-> FALSE, allDay |-> TRUE]

\* line 421
SortBusy(busy) == Items(SortByKey([i \in 1..Len(busy) |-> [k |-> busy[i].start, v |-> busy[i]]]))

\* a faulty variant: the slot before an event is reported without the comparison
GapBeforeAlways(current, start) == TRUE

\* line 432
GapBefore(current, start) == current < start

\* lines 431-434
RECURSIVE Walk(_, _, _)
Walk(busy, current, available_slots) ==
    IF busy = <<>> THEN [current |-> current, available_slots |-> available_slots]
    ELSE Walk(Tail(busy), Max(current, Head(busy).end),
              IF GapBefore(current, Head(busy).start)
              THEN Append(available_slots, <<current, Head(busy).start>>)
              ELSE available_slots)

\* lines 421-437
AvailableSlots(busy) ==
    LET w == Walk(SortBusy(busy), WorkStart, <<>>)
    IN  IF w.current < WorkEnd THEN Append(w.available_slots, <<w.current, WorkEnd>>)
        ELSE w.available_slots

DayResult(kind, slots) == [err |-> FALSE, kind |-> kind, slots |-> slots]

\* a faulty variant: a date without events is run through the slot computation
DayReportWindow(events) ==
    IF \E i \in 1..Len(events) : events[i].allDay THEN DayResult("none_all_day_events", <<>>)
    ELSE IF \E i \in 1..Len(events) : events[i].aware
         THEN [err |-> TRUE, kind |-> "TypeError", slots |-> <<>>]
    ELSE DayResult("slots", AvailableSlots(events))

\* lines 392-448: what is reported for one date.  kind is "available_all_day"
\* (lines 395-398), "none_all_day_events" (line 419), "slots" (lines 441-446) or
\* "none_working_hours" (line 448).  The working hours are naive datetimes:
\* comparing them (or naive event times) with an offset-aware event time raises
\* TypeError, in the sort of line 421 or at line 432.
DayReport(events) ==
    IF events = <<>> THEN DayResult("available_all_day", <<>>)
    ELSE IF \E i \in 1..Len(events) : events[i].allDay THEN DayResult("none_all_day_events", <<>>)
    ELSE IF \E i \in 1..Len(events) : events[i].aware
         THEN [err |-> TRUE, kind |-> "TypeError", slots |-> <<>>]
    ELSE IF AvailableSlots(events) # <<>> THEN DayResult("slots", AvailableSlots(events))
    ELSE DayResult("none_working_hours", <<>>)

\* lines 378-450: the dates are reported in order; an exception ends the call
RECURSIVE Reports(_, _)
Reports(cal, dates) ==
    IF dates = <<>> THEN [err |-> FALSE, days |-> <<>>, listed |-> 0]
    ELSE LET day == DayReport(cal[Head(dates)])
             rest == Reports(cal, Tail(dates))
         IN  IF day.err THEN [err |-> TRUE, days |-> <<>>, listed |-> 1]
             ELSE [err |-> rest.err,
                   days |-> <<[date |-> Head(dates), kind |-> day.kind,
                               slots |-> day.slots]>> \o rest.days,
                   listed |-> 1 + rest.listed]

\* lines 373-450
get_calendar_events(gmail_token, dates) ==
    /\ op = "idle"
    /\ call' = [Call("get_calendar_events", gmail_token) EXCEPT !.dates = dates]
    /\ LET creds == get_credentials(gmail_token, envToken, tokenFile)
           r == Reports(calendar, dates)
       IN  IF creds.kind # "returned"
           THEN result' = creds /\ calls' = <<>>
           ELSE /\ calls' = [i \in 1..r.listed |-> ApiCall("events.list", i)]
                /\ result' = IF r.err THEN Raise("TypeError", 0) ELSE Returned(r.days)
    /\ UNCHANGED <<now, importable, envToken, tokenFile, mailbox, badThreads, calendar, op, fetch>>

\* lines 483-501: the provider stores the event with the UTC offset of its timeZone
send_calendar_invite(gmail_token, date, start_time, end_time) ==
    /\ op = "idle"
    /\ call' = [Call("send_calendar_invite", gmail_token) EXCEPT !.dates = <<date>>]
    /\ LET creds == get_credentials(gmail_token, envToken, tokenFile)
       IN  IF creds.kind # "returned"
           THEN result' = creds /\ calls' = <<>> /\ calendar' = calendar
           ELSE /\ Len(calendar[date]) < MaxEvents
                /\ result' = Returned(TRUE)
                /\ calls' = <<ApiCall("events.insert", 0)>>
                /\ calendar' = [calendar EXCEPT ![date] = Append(@, TimedEvent(start_time, end_time, TRUE))]
    /\ UNCHANGED <<now, importable, envToken, tokenFile, mailbox, badThreads, op, fetch>>

----------------------------------------------------------------------------
(* format_gmail_markdown *)

\* html2text's handle, as far as the model needs it: the tags are dropped, the
\* text is trimmed and ends with a blank line
RECURSIVE DropTags(_, _)
DropTags(s, inTag) ==
    IF Len(s) = 0 THEN ""
    ELSE LET c == SubSeq(s, 1, 1)
             r == SubSeq(s, 2, Len(s))
         IN  IF inTag THEN DropTags(r, c # ">")
             ELSE IF c = "<" THEN DropTags(r, TRUE)
             ELSE c \o DropTags(r, FALSE)

Html2Text(s) == Strip(DropTags(s, FALSE)) \o "\n\n"

\* a faulty variant: the three tags are looked for anywhere in the body
IsHtmlAnywhere(email_thread) ==
    /\ email_thread # ""
    /\ \/ Contains(email_thread, "<!DOCTYPE")
       \/ Contains(email_thread, "<html")
       \/ Contains(email_thread, "<body")

\* lines 20-22
IsHtml(email_thread) ==
    /\ email_thread # ""
    /\ \/ StartsWith(Strip(email_thread), "<!DOCTYPE")
       \/ StartsWith(Strip(email_thread), "<html")
       \/ Contains(email_thread, "<body")

\* lines 17-36: email_id 0 is None.  The value keeps, beside the markdown, the
\* email_thread placed in it and whether it was converted.
format_gmail_markdown(subject, author, to, email_thread, email_id) ==
    /\ op = "idle"
    /\ call' = [Call("format_gmail_markdown", Absent) EXCEPT !.body = email_thread, !.id = email_id]
    /\ LET id_section == IF email_id # 0 THEN "\n**ID**: " \o ToString(email_id) ELSE ""
           converted == IsHtml(email_thread)
           text == IF converted THEN Html2Text(email_thread) ELSE email_thread
       IN  result' = Returned([converted |-> converted,
                               email_thread |-> text,
                               markdown |-> "\n        **Subject**: " \o subject
                                             \o "\n        **From**: " \o author
                                             \o "\n        **To**: " \o to \o id_section
                                             \o "\n        " \o text
                                             \o "\n        ---\n    "])
    /\ calls' = <<>>
    /\ UNCHANGED <<now, importable, envToken, tokenFile, mailbox, badThreads, calendar, op, fetch>>

----------------------------------------------------------------------------
(* get_tools and get_tools_by_name *)

\* a tool, as far as base.py looks at it: the tool decorator names it after the
\* function it wraps
Tool(name) == [name |-> name]

\* the names under which get_tools registers the Gmail tools, in the order of
\* the dict
GmailToolNames ==
    <<"fetch_emails_tool", "send_email_tool", "check_calendar_tool", "schedule_meeting_tool">>

\* lines 14-35: all_tools, as the list of its values; it stays empty without
\* include_gmail, and when the import raises ImportError
AllTools(include_gmail, can_import) ==
    IF include_gmail /\ can_import
    THEN [i \in 1..Len(GmailToolNames) |-> Tool(GmailToolNames[i])]
    ELSE <<>>

\* lines 4-39: tool_names is None (Missing) or a list of names
get_tools(tool_names, include_gmail, can_import) ==
    LET all_tools == AllTools(include_gmail, can_import)
        known(name) == \E i \in 1..Len(all_tools) : all_tools[i].name = name
    IN  IF ~Has(tool_names) THEN all_tools
        ELSE LET names == SelectSeq(Val(tool_names), known)
             IN  [i \in 1..Len(names) |-> Tool(names[i])]

\* line 47: a dict, the last tool of a name winning
ByName(tools) ==
    [name \in {tools[i].name : i \in 1..Len(tools)} |->
        tools[CHOOSE i \in 1..Len(tools) :
                 /\ tools[i].name = name
                 /\ \A j \in (i + 1)..Len(tools) : tools[j].name # name]]

\* lines 42-47: tools is None (Missing) or a list of tools
get_tools_by_name(tools, can_import) ==
    ByName(IF ~Has(tools) THEN get_tools(Missing, FALSE, can_import) ELSE Val(tools))

GetTools(tool_names, include_gmail) ==
    /\ op = "idle"
    /\ call' = [Call("get_tools", Absent) EXCEPT
                    !.tool_names = tool_names, !.include_gmail = include_gmail]
    /\ result' = Returned(get_tools(tool_names, include_gmail, importable))
    /\ calls' = <<>>
    /\ UNCHANGED <<now, importable, envToken, tokenFile, mailbox, badThreads, calendar, op, fetch>>

GetToolsByName(tools) ==
    /\ op = "idle"
    /\ call' = [Call("get_tools_by_name", Absent) EXCEPT !.tools = tools]
    /\ result' = Returned(get_tools_by_name(tools, importable))
    /\ calls' = <<>>
    /\ UNCHANGED <<now, importable, envToken, tokenFile, mailbox, badThreads, calendar, op, fetch>>

----------------------------------------------------------------------------
(* Initial states *)

ThreadIds == 1..2
InternalDates == {Missing, Some(1), Some(2)}
Other == "al@y.com"

\* the shapes of message the mailbox holds: by "other", by the user (with a
\* display name and a multipart body), and the ones whose processing fails
MsgKinds == {"other", "me", "nofrom", "nosubject", "nodate", "badbody", "noget"}

MessageOf(kind, id, threadId, internalDate, unread) ==
    Message(id, threadId, internalDate,
            IF kind = "nofrom" THEN Missing ELSE IF kind = "me" THEN Some("Me <me@x.com>") ELSE Some(Other),
            IF kind = "nosubject" THEN Missing ELSE Some("Hi"),
            IF kind = "nodate" THEN Missing ELSE Some(DateText),
            IF kind = "badbody" THEN Payload(Some("hello"), FALSE, <<>>)
            ELSE IF kind = "me"
                 THEN Payload(Missing, TRUE, <<PlainBody("hi"), Payload(Missing, TRUE, <<>>), PlainBody("there")>>)
                 ELSE PlainBody("hello"),
            unread, kind # "noget")

\* the mailboxes of n messages, ids 1..n: the first message is in thread 1, and
\* only the first message may lack its internalDate
Mailboxes(n, kinds, unreads) ==
    {mb \in [1..n -> [kind : kinds, threadId : ThreadIds, internalDate : InternalDates, unread : unreads]] :
        /\ n > 0 => mb[1].threadId = 1
        /\ \A i \in 2..n : Has(mb[i].internalDate)}

MailboxOf(n, mb) ==
    [i \in 1..n |-> MessageOf(mb[i].kind, i, mb[i].threadId, mb[i].internalDate, mb[i].unread)]

\* -- fetch_group_emails

Dates == {"01-01-2024", "02-01-2024"}

NoCalendar == [d \in Dates |-> <<>>]

InitFetch ==
    /\ envToken = Absent
    /\ tokenFile \in {Absent, Text("{\"token\": \"F\"}")}
    /\ \E n \in 0..MaxMsgs : \E mb \in Mailboxes(n, MsgKinds, {TRUE}) : mailbox = MailboxOf(n, mb)
    /\ badThreads \in {{}, {2}}
    /\ calendar = NoCalendar
    /\ importable = TRUE
    /\ now = Start
    /\ op = "idle"
    /\ call = NoCall
    /\ result = NoResult
    /\ calls = <<>>
    /\ fetch = NoFetch

NextFetch ==
    \/ \E skip_filters \in BOOLEAN : FetchBegin(Absent, FALSE, skip_filters)
    \/ FetchListPage
    \/ FetchProcess
    \/ FetchEnd

SpecFetch == InitFetch /\ [][NextFetch]_vars

\* -- the credential sources: get_credentials and the functions that call it

ParamSources ==
    {Absent, Text(""), Text("{bad"), Text("null"), Text("[]"), Text("{\"token\": \"P\"}")}
EnvSources ==
    {Absent, Text(""), Text("{bad"), Text("null"), Text("[]"), Text("{\"token\": \"E\"}")}
FileSources ==
    {Absent, Text(""), Text("{bad"), Text("null"), Text("[]"), Text("{\"token\": \"F\"}")}

Init ==
    /\ envToken \in EnvSources
    /\ tokenFile \in FileSources
    /\ mailbox = <<MessageOf("other", 1, 1, Some(1), TRUE)>>
    /\ badThreads = {}
    /\ calendar = NoCalendar
    /\ importable = TRUE
    /\ now = Start
    /\ op = "idle"
    /\ call = NoCall
    /\ result = NoResult
    /\ calls = <<>>
    /\ fetch = NoFetch

\* the gmail_token the tool functions are called with: none, a token object, and
\* a text that parses to no object
TokenArgs == {Absent, Text("[]"), Text("{\"token\": \"P\"}")}

Next ==
    \/ \E gmail_token \in ParamSources : GetCredentials(gmail_token)
    \/ \E gmail_token \in TokenArgs, include_read \in BOOLEAN :
           FetchBegin(gmail_token, include_read, FALSE)
    \/ FetchListPage
    \/ FetchProcess
    \/ FetchEnd
    \/ \E gmail_token \in TokenArgs : send_email(gmail_token, 1)
    \/ \E gmail_token \in TokenArgs : mark_as_read(gmail_token, 1)
    \/ \E gmail_token \in TokenArgs : get_calendar_events(gmail_token, <<"01-01-2024">>)
    \/ \E gmail_token \in TokenArgs : send_calendar_invite(gmail_token, "01-01-2024", 10, 11)

Spec == Init /\ [][Next]_vars

\* -- send_email

\* the originals: well-formed ones with the subjects below, and the ones that
\* cannot be retrieved
Subjects == {"Hi", "Re: Hi", "RE: Hi", "Re"}
Originals == {"ok", "nosubject", "nofrom", "nothread", "noget"}

OriginalOf(kind, id, threadId, subject) ==
    Message(id, IF kind = "nothread" THEN 0 ELSE threadId, Some(id),
            IF kind = "nofrom" THEN Missing ELSE Some(Other),
            IF kind = "nosubject" THEN Missing ELSE Some(subject),
            Some(DateText), PlainBody("hello"), TRUE, kind # "noget")

InitSend ==
    /\ envToken = Absent
    /\ tokenFile = Text("{\"token\": \"F\"}")
    /\ \E n \in 1..MaxMsgs :
         \E mb \in [1..n -> [kind : Originals, threadId : ThreadIds, subject : Subjects]] :
            /\ \A i \in 1..n : mb[i].kind # "ok" => mb[i].subject = "Hi" /\ mb[i].threadId = 1
            /\ mailbox = [i \in 1..n |-> OriginalOf(mb[i].kind, i, mb[i].threadId, mb[i].subject)]
    /\ badThreads = {}
    /\ calendar = NoCalendar
    /\ importable = TRUE
    /\ now = Start
    /\ op = "idle"
    /\ call = NoCall
    /\ result = NoResult
    /\ calls = <<>>
    /\ fetch = NoFetch

NextSend ==
    \E email_id \in 1..(MaxMsgs + 1) : send_email(Absent, email_id)

SpecSend == InitSend /\ [][NextSend]_vars

\* -- get_calendar_events

Times == {8, 9, 10, 12, 14, 17, 18, 19}

\* the events of a date: timed ones whose dateTime carries no UTC offset, with
\* every start <= end; timed ones whose dateTime carries one (what the Calendar
\* API sends); an all-day event
Events ==
    {TimedEvent(t[1], t[2], FALSE) : t \in {t \in Times \X Times : t[1] <= t[2]}}
        \cup {TimedEvent(10, 12, TRUE), TimedEvent(18, 19, TRUE)}
        \cup {AllDayEvent}

InitCal ==
    /\ envToken = Absent
    /\ tokenFile = Text("{\"token\": \"F\"}")
    /\ mailbox = <<>>
    /\ badThreads = {}
    /\ \E n \in 0..MaxEvents : \E es \in [1..n -> Events] :
          calendar = [d \in Dates |-> IF d = "01-01-2024" THEN es ELSE <<>>]
    /\ importable = TRUE
    /\ now = Start
    /\ op = "idle"
    /\ call = NoCall
    /\ result = NoResult
    /\ calls = <<>>
    /\ fetch = NoFetch

NextCal ==
    \E dates \in {<<"01-01-2024">>, <<"02-01-2024", "01-01-2024">>} :
        get_calendar_events(Absent, dates)

SpecCal == InitCal /\ [][NextCal]_vars

\* -- format_gmail_markdown

BodyPieces == {" ", "hi", "<!DOCTYPE html>", "<html>", "<body>", "<b>"}

RECURSIVE Concat(_)
Concat(ps) == IF ps = <<>> THEN "" ELSE Head(ps) \o Concat(Tail(ps))

Bodies == UNION {{Concat(ps) : ps \in [1..n -> BodyPieces]} : n \in 0..MaxBody}

InitFmt ==
    /\ envToken = Absent
    /\ tokenFile = Absent
    /\ mailbox = <<>>
    /\ badThreads = {}
    /\ calendar = NoCalendar
    /\ importable = TRUE
    /\ now = Start
    /\ op = "idle"
    /\ \E email_thread \in Bodies, email_id \in 0..1 :
          call = [NoCall EXCEPT !.body = email_thread, !.id = email_id]
    /\ result = NoResult
    /\ calls = <<>>
    /\ fetch = NoFetch

\* the function is pure: it is applied to the body the initial state holds
NextFmt == format_gmail_markdown("Hi", Other, Me, call.body, call.id)

SpecFmt == InitFmt /\ [][NextFmt]_vars

\* -- fetch_group_emails and its listing loop: the while loop of lines 178-192
\* runs without a pause, so a turn that can be taken is taken

InitPaging ==
    /\ envToken = Absent
    /\ tokenFile = Text("{\"token\": \"F\"}")
    /\ \E n \in 0..MaxMsgs : \E mb \in [1..n -> [kind : {"other", "noget"}, unread : BOOLEAN]] :
          mailbox = [i \in 1..n |-> MessageOf(mb[i].kind, i, 1, Some(i), mb[i].unread)]
    /\ badThreads = {}
    /\ calendar = NoCalendar
    /\ importable = TRUE
    /\ now = Start
    /\ op = "idle"
    /\ call = NoCall
    /\ result = NoResult
    /\ calls = <<>>
    /\ fetch = NoFetch

NextPaging ==
    \/ \E include_read \in BOOLEAN : FetchBegin(Absent, include_read, FALSE)
    \/ FetchListPage
    \/ FetchProcess
    \/ FetchEnd

SpecPaging ==
    /\ InitPaging /\ [][NextPaging]_vars
    /\ WF_vars(FetchListPage)

\* -- fetch_group_emails and mark_as_read: every message starts unread

InitRead ==
    /\ envToken = Absent
    /\ tokenFile = Text("{\"token\": \"F\"}")
    /\ \E n \in 1..MaxMsgs : \E mb \in Mailboxes(n, {"other", "me"}, {TRUE}) : mailbox = MailboxOf(n, mb)
    /\ badThreads = {}
    /\ calendar = NoCalendar
    /\ importable = TRUE
    /\ now = Start
    /\ op = "idle"
    /\ call = NoCall
    /\ result = NoResult
    /\ calls = <<>>
    /\ fetch = NoFetch

NextRead ==
    \/ \E include_read \in BOOLEAN : FetchBegin(Absent, include_read, FALSE)
    \/ FetchListPage
    \/ FetchProcess
    \/ FetchEnd
    \/ \E message_id \in 1..(MaxMsgs + 1) : mark_as_read(Absent, message_id)
    \/ Tick

SpecRead == InitRead /\ [][NextRead]_vars

\* -- get_tools and get_tools_by_name

MaxNames == 2       \* names in tool_names, tools in tools

\* the lists of at most n elements of a set
Lists(S, n) == UNION {[1..k -> S] : k \in 0..n}

ToolNames == {GmailToolNames[i] : i \in 1..Len(GmailToolNames)} \cup {"other_tool"}

InitTools ==
    /\ envToken = Absent
    /\ tokenFile = Absent
    /\ mailbox = <<>>
    /\ badThreads = {}
    /\ calendar = NoCalendar
    /\ importable \in BOOLEAN
    /\ now = Start
    /\ op = "idle"
    /\ call = NoCall
    /\ result = NoResult
    /\ calls = <<>>
    /\ fetch = NoFetch

NextTools ==
    \/ \E tool_names \in {Missing} \cup {Some(l) : l \in Lists(ToolNames, MaxNames)},
          include_gmail \in BOOLEAN : GetTools(tool_names, include_gmail)
    \/ \E tools \in {Missing} \cup {Some(l) : l \in Lists({Tool(n) : n \in ToolNames}, MaxNames)} :
          GetToolsByName(tools)

SpecTools == InitTools /\ [][NextTools]_vars

----------------------------------------------------------------------------
(* Credential resolution *)

\* the sources in their priority order
SourceOf(name) ==
    IF name = "param" THEN call.gmail_token ELSE IF name = "env" THEN envToken ELSE tokenFile

\* present and parses as JSON
ParsesAsJson(name) ==
    /\ SourceOf(name).present
    /\ SourceOf(name).text \in {"null", "[]", "{\"token\": \"P\"}", "{\"token\": \"E\"}", "{\"token\": \"F\"}"}

\* present and parses as JSON to a value other than null
ParsesToValue(name) == ParsesAsJson(name) /\ SourceOf(name).text # "null"

\* present and parses to a token object
ParsesToObject(name) == ParsesToValue(name) /\ SourceOf(name).text # "[]"

TokenIn(name) ==
    IF SourceOf(name).text = "{\"token\": \"P\"}" THEN "P"
    ELSE IF SourceOf(name).text = "{\"token\": \"E\"}" THEN "E" ELSE "F"

CredentialsReturned == call.name = "get_credentials" /\ result.kind = "returned"

BuiltFrom(name) == result.value.source = name /\ result.value.token = TokenIn(name)

\* C1 as stated: a source is available when it is present and parses as JSON;
\* the credentials returned are built from the highest-priority available source.
C1_AsStated ==
    CredentialsReturned =>
        /\ ParsesAsJson("param") => BuiltFrom("param")
        /\ ~ParsesAsJson("param") /\ ParsesAsJson("env") => BuiltFrom("env")
        /\ ~ParsesAsJson("param") /\ ~ParsesAsJson("env") => BuiltFrom("file")

\* C1, amended: a source is available when it is present and parses as JSON to a
\* value other than null; the credentials get_credentials returns are built from
\* the highest-priority available source, and a lower-priority source never
\* overrides a higher-priority available one.
C1_PriorityOrder ==
    CredentialsReturned =>
        /\ ParsesToValue("param") => BuiltFrom("param")
        /\ ~ParsesToValue("param") /\ ParsesToValue("env") => BuiltFrom("env")
        /\ ~ParsesToValue("param") /\ ~ParsesToValue("env") =>
               ParsesToValue("file") /\ BuiltFrom("file")

\* all three sources hold a token object, and the parameter's is used
C1_Witness ==
    /\ CredentialsReturned
    /\ ParsesToObject("param") /\ ParsesToObject("env") /\ ParsesToObject("file")
    /\ result.value = [token |-> "P", source |-> "param"]

CredentialFunctions ==
    {"get_credentials", "fetch_group_emails", "send_email", "get_calendar_events",
     "send_calendar_invite", "mark_as_read"}

NoValidSource ==
    ~ParsesToObject("param") /\ ~ParsesToObject("env") /\ ~ParsesToObject("file")

\* C2: when no source provides valid credentials (each is absent, empty or does
\* not parse to a token object), get_credentials raises ValueError, and each of
\* the five functions fails with it before issuing any provider API call.
C2_ValueErrorWithoutCredentials ==
    call.name \in CredentialFunctions /\ NoValidSource =>
        /\ result.kind = "raised" /\ result.exc = "ValueError"
        /\ calls = <<>>

----------------------------------------------------------------------------
(* The response filter of fetch_group_emails *)

FetchDone == call.name = "fetch_group_emails" /\ op = "idle" /\ result.kind = "returned"

\* the entries the for loop is through with
Handled == 1..(fetch.i - 1)

\* the chronological order of a thread: by internalDate when every message of
\* the thread has one, by id otherwise; equal dates keep the provider's order
DatedThread(threadId) ==
    \A i \in 1..Len(mailbox) : mailbox[i].threadId = threadId => Has(mailbox[i].internalDate)

Before(a, b) ==
    IF DatedThread(a.threadId) /\ Val(a.internalDate) # Val(b.internalDate)
    THEN Val(a.internalDate) < Val(b.internalDate)
    ELSE a.id < b.id

\* the listed entry can be read, and the most recent message of its thread is
\* sent by the target address
LastIsByUser(entry) ==
    \E i, j \in 1..Len(mailbox) :
        /\ mailbox[i].id = entry.id /\ mailbox[i].gettable
        /\ mailbox[i].threadId # 0 /\ mailbox[i].threadId \notin badThreads
        /\ mailbox[j].threadId = mailbox[i].threadId
        /\ \A k \in 1..Len(mailbox) :
              mailbox[k].threadId = mailbox[i].threadId /\ k # j => Before(mailbox[k], mailbox[j])
        /\ Has(mailbox[j].from) /\ Contains(Val(mailbox[j].from), call.email_address)

FullRecordOf(id) == \E r \in 1..Len(fetch.out) : fetch.out[r].kind = "full" /\ fetch.out[r].id = id
StubOf(id) == \E r \in 1..Len(fetch.out) : fetch.out[r].kind = "stub" /\ fetch.out[r].id = id

\* C3: with skip_filters false, a listed message whose thread's most recent
\* message is sent by the target address is skipped: only the user_respond
\* record, and no record with sender, recipient, subject and body, is produced
\* for it; with skip_filters true no message is skipped this way.
C3_RespondedThreadsSkipped ==
    call.name = "fetch_group_emails" =>
        /\ ~call.skip_filters =>
              \A n \in Handled :
                  LastIsByUser(fetch.messages[n]) =>
                      /\ ~FullRecordOf(fetch.messages[n].id)
                      /\ StubOf(fetch.messages[n].id)
        /\ call.skip_filters => \A r \in 1..Len(fetch.out) : fetch.out[r].kind = "full"

\* a message by someone else was listed and handled, the user has answered in
\* its thread, and the fetch is over
C3_Witness ==
    /\ FetchDone /\ ~call.skip_filters
    /\ \E n \in Handled :
          /\ LastIsByUser(fetch.messages[n])
          /\ ~Contains(Val(ById(mailbox, fetch.messages[n].id).from), call.email_address)
          /\ StubOf(fetch.messages[n].id)

----------------------------------------------------------------------------
(* Failures while processing one message *)

Fails(entry) ==
    ProcessMessage(entry, call.email_address, call.skip_filters, mailbox, badThreads).outcome = "failed"

\* what the for loop yields for a list of entries none of which fails
RECURSIVE Yielded(_)
Yielded(entries) ==
    IF entries = <<>> THEN <<>>
    ELSE LET r == ProcessMessage(Head(entries), call.email_address, call.skip_filters,
                                 mailbox, badThreads)
         IN  (IF r.outcome \in {"record", "stub"} THEN <<r.rec>> ELSE <<>>) \o Yielded(Tail(entries))

GetIssued(id) == \E c \in 1..Len(calls) : calls[c].api = "messages.get" /\ calls[c].id = id

\* C8: a failure while processing one listed message is logged and the message
\* skipped without aborting the batch: when the fetch is over, every listed
\* message has been requested, the failing ones are the ones logged, and the
\* records yielded are those of the listing without the failing messages.
C8_FailuresSkipped ==
    FetchDone =>
        /\ \A n \in 1..Len(fetch.messages) : GetIssued(fetch.messages[n].id)
        /\ fetch.warned = [n \in 1..Len(SelectSeq(fetch.messages, Fails)) |->
                               SelectSeq(fetch.messages, Fails)[n].id]
        /\ fetch.out = Yielded(SelectSeq(fetch.messages, LAMBDA e : ~Fails(e)))

\* the first listed message failed, and a later one yielded its record
C8_Witness ==
    /\ FetchDone
    /\ Len(fetch.messages) >= 2
    /\ Fails(fetch.messages[1])
    /\ fetch.warned = <<fetch.messages[1].id>>
    /\ FullRecordOf(fetch.messages[2].id)

----------------------------------------------------------------------------
(* The availability get_calendar_events reports *)

CalendarReturned == call.name = "get_calendar_events" /\ result.kind = "returned"

Days == IF CalendarReturned THEN 1..Len(result.value) ELSE {}
EventsOf(d) == calendar[result.value[d].date]
SlotsOf(d) == result.value[d].slots

\* C4 as stated: for a date without events the availability reported is the
\* working-hours window, 9:00 to 17:00.
C4_AsStated ==
    \A d \in Days : EventsOf(d) = <<>> => SlotsOf(d) = <<<<WorkStart, WorkEnd>>>>

\* C4, amended: for a requested date on which the calendar has no events,
\* get_calendar_events reports "No events found" and "Available all day"; no
\* working-hours window is computed or reported for that date.
C4_NoEventsAvailableAllDay ==
    \A d \in Days :
        EventsOf(d) = <<>> => result.value[d].kind = "available_all_day" /\ SlotsOf(d) = <<>>

\* a date without events was reported
C4_Witness ==
    \E d \in Days : EventsOf(d) = <<>> /\ result.value[d].kind = "available_all_day"

\* C5: for a date with timed events (each with end >= start), the free slots
\* are ordered and do not overlap: every slot has start < end, and each slot
\* starts at or after the end of the slot reported before it.
C5_SlotsOrdered ==
    \A d \in Days :
        \A n \in 1..Len(SlotsOf(d)) :
            /\ SlotsOf(d)[n][1] < SlotsOf(d)[n][2]
            /\ n > 1 => SlotsOf(d)[n][1] >= SlotsOf(d)[n - 1][2]

\* two events that overlap, listed out of order, with a slot before and one
\* after them
C5_Witness ==
    \E d \in Days :
        /\ Len(EventsOf(d)) = 2
        /\ EventsOf(d)[2].start < EventsOf(d)[1].start
        /\ EventsOf(d)[1].start < EventsOf(d)[2].end
        /\ Len(SlotsOf(d)) = 2

\* C6: every free slot reported for a date lies within the 9:00-17:00 working
\* window, also when events start before 9:00 or after 17:00.
C6_SlotsWithinWorkingHours ==
    \A d \in Days :
        \A n \in 1..Len(SlotsOf(d)) :
            WorkStart <= SlotsOf(d)[n][1] /\ SlotsOf(d)[n][2] <= WorkEnd

----------------------------------------------------------------------------
(* The HTML heuristic of format_gmail_markdown *)

Formatted == call.name = "format_gmail_markdown" /\ result.kind = "returned"

\* the body holds the text at some place
Somewhere(body, tag) ==
    \E i \in 1..Len(body) : i + Len(tag) - 1 <= Len(body) /\ SubSeq(body, i, i + Len(tag) - 1) = tag

\* the body holds the text after nothing but white space
AtStart(body, tag) ==
    \E i \in 1..Len(body) :
        /\ i + Len(tag) - 1 <= Len(body)
        /\ SubSeq(body, i, i + Len(tag) - 1) = tag
        /\ \A j \in 1..(i - 1) : IsSpace(SubSeq(body, j, j))

\* C7 as stated: the body is converted exactly when it contains a doctype, html
\* or body tag anywhere; a body without them is passed through unchanged.
C7_AsStated ==
    Formatted =>
        /\ result.value.converted <=>
              \/ Somewhere(call.body, "<!DOCTYPE")
              \/ Somewhere(call.body, "<html")
              \/ Somewhere(call.body, "<body")
        /\ ~result.value.converted => result.value.email_thread = call.body

\* C7, amended: format_gmail_markdown converts the body with HTML-to-text exactly
\* when the body, leading white space aside, starts with "<!DOCTYPE" or "<html",
\* or contains "<body" anywhere; every other body, one that holds a doctype or
\* html tag further in included, is passed through unchanged.
C7_HtmlDetection ==
    Formatted =>
        /\ result.value.converted <=>
              \/ AtStart(call.body, "<!DOCTYPE")
              \/ AtStart(call.body, "<html")
              \/ Somewhere(call.body, "<body")
        /\ ~result.value.converted => result.value.email_thread = call.body
        /\ result.value.converted => result.value.email_thread # call.body

\* a body with an html tag after some text is passed through unchanged
C7_Witness ==
    /\ Formatted
    /\ Somewhere(call.body, "<html")
    /\ ~result.value.converted
    /\ result.value.email_thread = call.body

----------------------------------------------------------------------------
(* The reply send_email builds *)

SendCalled == call.name = "send_email"

\* the original message can be retrieved with its Subject, From and threadId
Retrievable(id) ==
    \E i \in 1..Len(mailbox) :
        /\ mailbox[i].id = id /\ mailbox[i].gettable
        /\ Has(mailbox[i].subject) /\ Has(mailbox[i].from) /\ mailbox[i].threadId # 0

IsReply(subject) == Len(subject) >= 3 /\ SubSeq(subject, 1, 3) = "Re:"

Sends == {c \in 1..Len(calls) : calls[c].api = "messages.send"}

\* C9: if send_email cannot retrieve the original message (the get call fails,
\* or the message lacks a Subject or From header or a threadId), it raises
\* ValueError naming the message id, and issues no message-send call.
C9_NoSendWithoutOriginal ==
    SendCalled /\ get_credentials(call.gmail_token, envToken, tokenFile).kind = "returned"
               /\ ~Retrievable(call.id) =>
        /\ result = Raise("ValueError", call.id)
        /\ Sends = {}

\* the original is there but has no From header
C9_Witness ==
    /\ SendCalled
    /\ \E i \in 1..Len(mailbox) :
          mailbox[i].id = call.id /\ mailbox[i].gettable /\ ~Has(mailbox[i].from)
                                  /\ Has(mailbox[i].subject) /\ mailbox[i].threadId # 0
    /\ result = Raise("ValueError", call.id)
    /\ calls = <<ApiCall("messages.get", call.id)>>

\* C10: on success the reply goes to the original message's From header, in the
\* original's thread, with the original subject, prefixed with "Re: " only if
\* it does not start with "Re:" already; exactly one send call is made.
C10_ReplyFromOriginal ==
    SendCalled /\ result.kind = "returned" =>
        /\ Cardinality(Sends) = 1
        /\ \A c \in Sends :
              LET original == ById(mailbox, call.id)
                  subject == Val(original.subject)
              IN  /\ calls[c].to = Val(original.from)
                  /\ calls[c].threadId = original.threadId
                  /\ IsReply(subject) => calls[c].subject = subject
                  /\ ~IsReply(subject) => calls[c].subject = "Re: " \o subject

\* a reply to a reply keeps its subject
C10_Witness ==
    /\ SendCalled /\ result.kind = "returned"
    /\ Val(ById(mailbox, call.id).subject) = "Re: Hi"
    /\ \E c \in Sends : calls[c].subject = "Re: Hi"

----------------------------------------------------------------------------
(* The records fetch_group_emails yields with skip_filters *)

\* the listed entries the for loop is through with and that did not fail
Processed == SelectSeq(SubSeq(fetch.messages, 1, fetch.i - 1), LAMBDA e : ~Fails(e))

\* C11: with skip_filters true, every successfully processed listed message
\* yields one record describing that same message (the record's id is the
\* listed message's id), so distinct listed messages yield distinct records.
C11_RecordPerListedMessage ==
    call.name = "fetch_group_emails" /\ call.skip_filters =>
        /\ Len(fetch.out) = Len(Processed)
        /\ \A n \in 1..Len(fetch.out) :
              fetch.out[n].kind = "full" /\ fetch.out[n].id = Processed[n].id
        /\ \A m, n \in 1..Len(fetch.out) : m # n => fetch.out[m] # fetch.out[n]

----------------------------------------------------------------------------
(* The tools get_tools and get_tools_by_name return *)

GmailTools == {GmailToolNames[i] : i \in 1..Len(GmailToolNames)}

\* the names of a list that name a Gmail tool, in the order of the list
Named(names) == SelectSeq(names, LAMBDA n : n \in GmailTools)

\* C12: get_tools returns all four Gmail tools when tool_names is None, and
\* otherwise exactly the tools named in tool_names, in that order;
\* get_tools_by_name called with no argument maps each of the four tool names
\* to its tool.
C12_ToolsByName ==
    /\ call.name = "get_tools" /\ ~Has(call.tool_names) =>
          /\ Len(result.value) = Len(GmailToolNames)
          /\ \A i \in 1..Len(GmailToolNames) : result.value[i].name = GmailToolNames[i]
    /\ call.name = "get_tools" /\ Has(call.tool_names) =>
          /\ Len(result.value) = Len(Named(Val(call.tool_names)))
          /\ \A i \in 1..Len(result.value) : result.value[i].name = Named(Val(call.tool_names))[i]
    /\ call.name = "get_tools_by_name" /\ ~Has(call.tools) =>
          /\ DOMAIN result.value = GmailTools
          /\ \A n \in GmailTools : result.value[n].name = n

----------------------------------------------------------------------------
(* Fetching leaves the mailbox as it is *)

ReadCalls == {"messages.list", "messages.get", "threads.get"}

UnreadIds(mb) == {mb[i].id : i \in {j \in 1..Len(mb) : mb[j].unread}}

IdsOf(ms) == [n \in 1..Len(ms) |-> ms[n].id]

\* the ids of the unread messages, in the provider's order
UnreadListing(mb) == IdsOf(SelectSeq(mb, LAMBDA m : m.unread))

\* the ids of the unread messages received after a time
UnreadListingSince(mb, after) ==
    IdsOf(SelectSeq(mb, LAMBDA m : m.unread /\ (Has(m.internalDate) => Val(m.internalDate) > after)))

\* a step of fetch_group_emails issues only read calls and leaves the mailbox
\* unchanged, and a message stops being unread only by a successful
\* mark_as_read of its id
ReadOnlyStep ==
    /\ call'.name = "fetch_group_emails" =>
          /\ mailbox' = mailbox
          /\ \A c \in 1..Len(calls') : calls'[c].api \in ReadCalls
    /\ \A id \in UnreadIds(mailbox) \ UnreadIds(mailbox') :
          call'.name = "mark_as_read" /\ call'.id = id /\ result'.kind = "returned"

ListingComplete == call.name = "fetch_group_emails" /\ op = "processing" /\ ~call.include_read

\* C13 as stated: fetch_group_emails only reads, and every fetch with
\* include_read false lists the unread messages of the mailbox: the same ones
\* again, until mark_as_read removes one.
C13_AsStated ==
    [][/\ ReadOnlyStep
       /\ ListingComplete' => IdsOf(fetch'.messages) = UnreadListing(mailbox')
      ]_vars

\* C13, amended: fetch_group_emails issues only read calls and leaves the
\* mailbox unchanged, never removing the UNREAD label; a fetch with
\* include_read false lists the unread messages received within minutes_since
\* minutes before the call, so that later fetches list the same messages again
\* except those that have left that window; of the functions, only
\* mark_as_read(id) removes message id from later unread fetches.
C13_FetchLeavesMailbox ==
    [][/\ ReadOnlyStep
       /\ op = "idle" /\ op' = "listing" => fetch'.after = now - MinutesSince
       /\ ListingComplete' => IdsOf(fetch'.messages) = UnreadListingSince(mailbox', fetch'.after)
      ]_vars

\* a fetch of the unread messages is over; a message that was marked as read is
\* not in its listing, the message that is still unread is, and has been
\* processed
C13_Witness ==
    /\ FetchDone /\ ~call.include_read
    /\ \E i, j \in 1..Len(mailbox) : ~mailbox[i].unread /\ mailbox[j].unread
    /\ Len(fetch.messages) = 1
    /\ IdsOf(fetch.messages) = UnreadListing(mailbox)
    /\ GetIssued(fetch.messages[1].id)

----------------------------------------------------------------------------
(* The pages of the message listing *)

\* the pages the provider serves for the query of the call, from a page token on
RECURSIVE PagesFrom(_, _)
PagesFrom(token, n) ==
    LET page == ListPage(mailbox, call.include_read, fetch.after, token)
    IN  IF Has(page.nextPageToken) /\ n > 0
        THEN <<page>> \o PagesFrom(page.nextPageToken, n - 1)
        ELSE <<page>>

Pages == PagesFrom(Missing, Len(mailbox))

RECURSIVE MessagesOf(_)
MessagesOf(pages) ==
    IF pages = <<>> THEN <<>>
    ELSE (IF Has(Head(pages).messages) THEN Val(Head(pages).messages) ELSE <<>>)
             \o MessagesOf(Tail(pages))

ListCalls == SelectSeq(calls, LAMBDA c : c.api = "messages.list")
GetCalls == SelectSeq(calls, LAMBDA c : c.api = "messages.get")

Fetching == call.name = "fetch_group_emails" /\ op # "idle"

\* the requests made so far are for the first pages, each with the
\* nextPageToken of the page before it
PagesRequestedInOrder ==
    /\ Len(ListCalls) <= Len(Pages)
    /\ \A k \in 1..Len(ListCalls) :
          ListCalls[k].id = IF k = 1 THEN 0 ELSE Val(Pages[k - 1].nextPageToken)
    /\ fetch.messages = MessagesOf(SubSeq(Pages, 1, Len(ListCalls)))

\* the listing is complete: every page was requested once, and the messages
\* to process are those of all pages in page order
ListingIsAllPages ==
    /\ Len(ListCalls) = Len(Pages)
    /\ fetch.messages = MessagesOf(Pages)

\* every entry the for loop is through with was requested once, in order, and
\* yielded at most one record
EachEntryOnce ==
    /\ IdsOf(GetCalls) = IdsOf(SubSeq(fetch.messages, 1, fetch.i - 1))
    /\ Len(fetch.out) + Len(fetch.warned) <= fetch.i - 1

\* C14: fetch_group_emails requests pages, passing each page's nextPageToken to
\* the next request, until a page carries none; the loop then terminates, the
\* messages processed are the concatenation of the messages of all pages in
\* page order, and each listed entry is processed exactly once and yields at
\* most one record.
C14_PaginationToCompletion ==
    /\ [](Fetching => PagesRequestedInOrder)
    /\ [](Fetching /\ op = "processing" => ListingIsAllPages /\ EachEntryOnce)
    /\ [](FetchDone => ListingIsAllPages /\ EachEntryOnce /\ fetch.i = Len(fetch.messages) + 1)
    /\ (op = "listing" ~> op = "processing")

\* a listing of two pages was fetched to its end
C14_Witness ==
    /\ FetchDone
    /\ Len(Pages) >= 2 /\ Len(ListCalls) = Len(Pages)
    /\ Len(fetch.messages) = MaxMsgs
    /\ Len(GetCalls) = MaxMsgs

----------------------------------------------------------------------------
(* The full records of a thread *)

\* the message is the latest of its thread
LatestOfThread(id) ==
    \E j \in 1..Len(mailbox) :
        /\ mailbox[j].id = id
        /\ \A k \in 1..Len(mailbox) :
              mailbox[k].threadId = mailbox[j].threadId /\ k # j => Before(mailbox[k], mailbox[j])

FullRecords == {r \in 1..Len(fetch.out) : fetch.out[r].kind = "full"}

\* C15: with skip_filters false, a full record (sender, recipient, subject,
\* body) is yielded for a listed message only if that message is the latest of
\* its thread and its From header does not contain email_address; so at most
\* one full record is yielded per thread, however many of its messages were
\* listed.
C15_OneFullRecordPerThread ==
    call.name = "fetch_group_emails" /\ ~call.skip_filters =>
        /\ \A r \in FullRecords :
              /\ \E n \in Handled : fetch.messages[n].id = fetch.out[r].id
              /\ LatestOfThread(fetch.out[r].id)
              /\ Has(ById(mailbox, fetch.out[r].id).from)
              /\ ~Contains(Val(ById(mailbox, fetch.out[r].id).from), call.email_address)
              /\ fetch.out[r].thread_id = ById(mailbox, fetch.out[r].id).threadId
        /\ \A r1, r2 \in FullRecords : r1 # r2 => fetch.out[r1].thread_id # fetch.out[r2].thread_id

\* both messages of a thread were listed, neither is by the user, and the
\* fetch yielded one record: the full record of the later message
C15_Witness ==
    /\ FetchDone /\ ~call.skip_filters
    /\ Len(fetch.messages) = 2
    /\ fetch.messages[1].threadId = fetch.messages[2].threadId
    /\ \A n \in 1..2 : ~Contains(Val(ById(mailbox, fetch.messages[n].id).from), call.email_address)
    /\ Len(fetch.out) = 1 /\ FullRecords = {1}
    /\ LatestOfThread(fetch.out[1].id)

----------------------------------------------------------------------------
(* The free slots and the events of a date *)

\* the hours of a day; every time of the model is a whole hour, so an interval
\* covers the hour h when it holds the instants from h to h + 1
Hours == 0..23

InEvent(h, e) == e.start <= h /\ h < e.end
InSlot(h, slot) == slot[1] <= h /\ h < slot[2]
InWindow(h) == WorkStart <= h /\ h < WorkEnd

AllTimed(d) == \A i \in 1..Len(EventsOf(d)) : ~EventsOf(d)[i].allDay

\* C16: for a date whose events are all timed, the free slots are exactly the
\* uncovered part of the working window: no free slot intersects an event of
\* the date, and every instant of the 9:00-17:00 window that no event covers
\* lies in a free slot (and no instant outside the window does); if an event
\* of the date is an all-day event, no free slot is reported.
C16_SlotsAreUncoveredWindow ==
    \A d \in Days :
        /\ AllTimed(d) /\ EventsOf(d) # <<>> =>
              \A h \in Hours :
                  (\E n \in 1..Len(SlotsOf(d)) : InSlot(h, SlotsOf(d)[n]))
                      <=> (InWindow(h) /\ \A i \in 1..Len(EventsOf(d)) : ~InEvent(h, EventsOf(d)[i]))
        /\ ~AllTimed(d) => SlotsOf(d) = <<>>

====
